---- MODULE Spec2Model ----
(***************************************************************************)
(* Keyword Forward Bot (main.py): the process-wide State, the              *)
(* configuration commands, the text handler on_text and the forward        *)
(* routine forward_next_if_ready, with every await of the forward path as  *)
(* a suspension point at which other handlers may run.                     *)
(***************************************************************************)
EXTENDS Integers, Sequences, FiniteSets, TLC

\* ------------------------------------------------------------- bounds
\* message ids a /setrange command may name: 1..MaxId
MaxId == 2
\* text handlers (on_text invocations) that may be in flight at once
NumHandlers == 2

Handlers == 1..NumHandlers
Ids == 1..MaxId
\* chats a /settarget command can name and texts can arrive from
Chats == {1, 2}
\* chats a /setsource command can name
SourceChats == {3}

\* ----------------------------------------------------- Optional[int]
None == <<>>
Some(v) == <<v>>
Val(o) == o[1]
OptIds == {None} \cup {Some(i) : i \in 1..(MaxId + 1)}

Min(a, b) == IF a <= b THEN a ELSE b
Max(a, b) == IF a >= b THEN a ELSE b

\* ------------------------------------------------------------ strings
\* A str is the sequence of its characters.
LowerChar(c) ==
  CASE c = "C" -> "c"
    [] c = "D" -> "d"
    [] c = "O" -> "o"
    [] c = "K" -> "k"
    [] OTHER -> c

\* str.lower()
Lower(s) == [i \in 1..Len(s) |-> LowerChar(s[i])]

\* `sub in s` on str
Contains(sub, s) ==
  \E i \in 0..(Len(s) - Len(sub)) : SubSeq(s, i + 1, i + Len(sub)) = sub

DefaultKeyword == <<"C", "o", "m", "p", "l", "e", "t", "e", "d">>
\* arguments a /setkeyword command is given in the model
KeywordInputs == {<<"D", "o", "n", "e">>}
\* first argument of /setreply and /delreply in the model
ReplyInputs == {<<"O">>}
\* inbound texts
Texts == {<<>>,
          <<"C", "o", "m", "p", "l", "e", "t", "e", "d">>,
          <<"D", "o", "n", "e", " ", "o", "k">>}

\* ---------------------------------------------------- external layer
\* what get_messages can answer: a message, an empty message, or raise
FetchOutcomes == {"msg", "empty", "FloodWait", "RPCError", "Exception"}
\* what copy_message and reply_text can answer: return, or raise
CallOutcomes == {"ok", "FloodWait", "RPCError", "Exception"}

VARIABLES
  source_chat_id,   \* State.source_chat_id
  target_chat_id,   \* State.target_chat_id
  start_id,         \* State.start_id
  end_id,           \* State.end_id
  next_id,          \* State.next_id
  keyword,          \* State.keyword
  custom_replies,   \* State.custom_replies: its keys, in insertion order
  lock,             \* State.lock: [locked, waiters]
  task,             \* per on_text invocation: position and locals
  lastId,           \* history: the id copied last since the range was set
  rangeClean,       \* history: every attempt since the range was set succeeded
  argv,             \* history: the words of the command under observation
  status            \* the cmd_status invocation: position and locals

vars == <<source_chat_id, target_chat_id, start_id, end_id, next_id, keyword,
          custom_replies, lock, task, lastId, rangeClean, argv, status>>

\* the fields of State that /setrange and the forward routine do not write
others == <<source_chat_id, target_chat_id, keyword, custom_replies>>
range == <<start_id, end_id, next_id>>
hist == <<lastId, rangeClean>>
\* what the handlers of texts and the commands other than /status leave alone
aside == <<argv, status>>

\* no external call in flight
NoCall == <<>>

\* An on_text invocation that is not running.
\*   pc: the line it is suspended at; chat: trigger_msg.chat.id; text:
\*   text_lower; why: the reason ready_to_forward gave; rest, used, live,
\*   churn, broken: the iterator of the loop over State.custom_replies.items()
\*   (the keys still to answer, the size of the dict when the loop began,
\*   whether the dict is still State.custom_replies, whether a key was
\*   deleted from it, whether its size had changed when /reset unbound it);
\*   call: the external call awaited.
\* History of the forward attempt in progress: fetched, done: the ids given
\*   to get_messages and to a copy_message that succeeded; answer: what
\*   get_messages or copy_message, whichever was called last, answered; clean: no
\*   /setrange or /reset ran since the trigger passed L235; rivals: the
\*   handlers whose attempt was in progress, within the same range, when
\*   this one passed L235; rivalDone: the ids those attempts copied since.
IdleTask ==
  [pc |-> "idle", chat |-> None, text |-> <<>>, why |-> "",
   rest |-> <<>>, used |-> None, live |-> FALSE, churn |-> FALSE,
   broken |-> FALSE,
   call |-> NoCall, fetched |-> None, done |-> None, answer |-> "",
   clean |-> FALSE, rivals |-> {}, rivalDone |-> {}]

\* A cmd_status invocation that is not running.
\*   pc: the line it is suspended at; arg: the chat_id name_or_id was called
\*   with; src, tgt: what name_or_id returned; rng: range_str() as put into
\*   the text (the keyword and the number of replies in it are left out)
IdleStatus ==
  [pc |-> "idle", arg |-> None, src |-> <<>>, tgt |-> <<>>, rng |-> <<>>]

\* class State: the class attributes at import time
Init ==
  /\ source_chat_id = None
  /\ target_chat_id = None
  /\ start_id = None
  /\ end_id = None
  /\ next_id = None
  /\ keyword = DefaultKeyword
  /\ custom_replies = <<>>
  /\ lock = [locked |-> FALSE, waiters |-> <<>>]
  /\ task = [h \in Handlers |-> IdleTask]
  /\ lastId = None
  /\ rangeClean = FALSE
  /\ argv = <<>>
  /\ status = IdleStatus

\* positions of forward_next_if_ready at which State.lock is held
GuardedPcs == {"L242", "L245", "L247", "L250", "L255", "L258", "L259", "L261", "L264"}
InGuard(h) == task[h].pc \in GuardedPcs
\* positions at which the handler is inside forward_next_if_ready, past L235
ForwardPcs == GuardedPcs \cup {"L238"}

\* ------------------------------------------------------ int(), str()
DigitChars == <<"0", "1", "2", "3", "4", "5", "6", "7", "8", "9">>
IsDigit(c) == \E d \in 1..10 : DigitChars[d] = c
DigitVal(c) == (CHOOSE d \in 1..10 : DigitChars[d] = c) - 1

Unsigned(s) == IF s # <<>> /\ s[1] \in {"-", "+"} THEN Tail(s) ELSE s

\* whether int(s) returns (it raises ValueError otherwise)
IsIntText(s) ==
  /\ Unsigned(s) # <<>>
  /\ \A i \in 1..Len(Unsigned(s)) : IsDigit(Unsigned(s)[i])

RECURSIVE DigitsValue(_)
DigitsValue(s) ==
  IF s = <<>> THEN 0
  ELSE 10 * DigitsValue(SubSeq(s, 1, Len(s) - 1)) + DigitVal(s[Len(s)])

\* int(s) for a text int() accepts
IntOf(s) ==
  IF s[1] = "-" THEN 0 - DigitsValue(Unsigned(s)) ELSE DigitsValue(Unsigned(s))

\* the decimal text of a message id, as an operator types it
IdText(n) == <<DigitChars[n + 1]>>

\* the words after the command name in a /setrange message
RangeWords == {IdText(i) : i \in Ids} \cup {<<"x">>}
RangeArgs ==
  {<<>>} \cup {<<a>> : a \in RangeWords}
         \cup {<<a, b>> : a \in RangeWords, b \in RangeWords}

\* " ".join(words)
RECURSIVE Join(_)
Join(words) ==
  IF words = <<>> THEN <<>>
  ELSE IF Len(words) = 1 THEN words[1]
  ELSE words[1] \o <<" ">> \o Join(Tail(words))

\* str.strip() for the blank character
RECURSIVE Strip(_)
Strip(s) ==
  IF s = <<>> THEN s
  ELSE IF s[1] = " " THEN Strip(Tail(s))
  ELSE IF s[Len(s)] = " " THEN Strip(SubSeq(s, 1, Len(s) - 1))
  ELSE s

\* --------------------------------------------------- readiness gate
\* ready_to_forward() with the range looked at before the target
ready_to_forward_range_first ==
  IF source_chat_id = None THEN <<FALSE, "Source not set. Use /setsource">>
  ELSE IF start_id = None \/ end_id = None
  THEN <<FALSE, "Range not set. Use /setrange <first_id> <last_id>">>
  ELSE IF target_chat_id = None THEN <<FALSE, "Target not set. Use /settarget">>
  ELSE IF next_id = None THEN <<FALSE, "Internal: next_id not initialized">>
  ELSE <<TRUE, "OK">>

\* ready_to_forward(): <<ok, why>>
ready_to_forward ==
  IF source_chat_id = None THEN <<FALSE, "Source not set. Use /setsource">>
  ELSE IF target_chat_id = None THEN <<FALSE, "Target not set. Use /settarget">>
  ELSE IF start_id = None \/ end_id = None
  THEN <<FALSE, "Range not set. Use /setrange <first_id> <last_id>">>
  ELSE IF next_id = None THEN <<FALSE, "Internal: next_id not initialized">>
  ELSE <<TRUE, "OK">>

\* ------------------------------------------------------------ commands
\* the history restarts when the range is set anew or cleared
ForgetHistory(cleanStart) ==
  /\ lastId' = None
  /\ rangeClean' = cleanStart

\* an attempt in progress when the range changes is no longer within one range
Unclean(t) == [t EXCEPT !.clean = FALSE, !.rivals = {}, !.rivalDone = {}]

\* State.next_id = a, the first word, in place of lo
NewCursorFirst(a, b) == a

\* State.next_id = lo
NewCursor(a, b) == Min(a, b)

\* /setsource: args are the words after the command, chat_id is what
\* resolve_chat_id answers and checked what the whole validation comes to
cmd_set_source(args, chat_id, checked) ==
  /\ IF Len(args) >= 1 /\ checked = "ok"
       THEN source_chat_id' = Some(chat_id)
       ELSE UNCHANGED source_chat_id
  /\ UNCHANGED <<target_chat_id, range, keyword, custom_replies, lock, task, hist>>

\* /settarget
cmd_set_target(args, chat_id, checked) ==
  /\ IF Len(args) >= 1 /\ checked = "ok"
       THEN target_chat_id' = Some(chat_id)
       ELSE UNCHANGED target_chat_id
  /\ UNCHANGED <<source_chat_id, range, keyword, custom_replies, lock, task, hist>>

\* /setrange
cmd_set_range(args) ==
  IF Len(args) >= 2 /\ IsIntText(args[1]) /\ IsIntText(args[2])
  THEN LET a == IntOf(args[1])
           b == IntOf(args[2])
       IN /\ start_id' = Some(Min(a, b))
          /\ end_id' = Some(Max(a, b))
          /\ next_id' = Some(NewCursor(a, b))
          /\ task' = [h \in Handlers |-> Unclean(task[h])]
          /\ ForgetHistory(\A h \in Handlers : task[h].pc \notin ForwardPcs)
          /\ UNCHANGED <<others, lock>>
  ELSE UNCHANGED <<others, range, lock, task, hist>>

\* /setkeyword held back while a forward attempt sleeps
cmd_set_keyword_after_sleep(args) ==
  /\ \A h \in Handlers : task[h].pc # "L259"
  /\ IF Len(args) >= 1
       THEN keyword' = Strip(Join(args))
       ELSE UNCHANGED keyword
  /\ UNCHANGED <<source_chat_id, target_chat_id, range, custom_replies, lock,
                 task, hist>>

\* /setkeyword
cmd_set_keyword(args) ==
  /\ IF Len(args) >= 1
       THEN keyword' = Strip(Join(args))
       ELSE UNCHANGED keyword
  /\ UNCHANGED <<source_chat_id, target_chat_id, range, custom_replies, lock,
                 task, hist>>

HasKey(k) == \E i \in 1..Len(custom_replies) : custom_replies[i] = k

\* /setreply: a new key changes the size of the dict, which a loop over it
\* notices at its next step
cmd_set_reply(args) ==
  /\ IF Len(args) >= 2 /\ ~HasKey(Lower(args[1]))
       THEN custom_replies' = Append(custom_replies, Lower(args[1]))
       ELSE UNCHANGED custom_replies
  /\ UNCHANGED <<source_chat_id, target_chat_id, range, keyword, lock, task, hist>>

\* /delreply
cmd_del_reply(args) ==
  /\ IF Len(args) >= 1 /\ HasKey(Lower(args[1]))
       THEN /\ custom_replies' =
                 SelectSeq(custom_replies, LAMBDA k : k # Lower(args[1]))
            /\ task' = [h \in Handlers |->
                         IF task[h].live THEN [task[h] EXCEPT !.churn = TRUE]
                         ELSE task[h]]
       ELSE UNCHANGED <<custom_replies, task>>
  /\ UNCHANGED <<source_chat_id, target_chat_id, range, keyword, lock, hist>>

\* /reset without State.next_id = None
cmd_reset_keeps_cursor ==
  /\ source_chat_id' = None
  /\ target_chat_id' = None
  /\ start_id' = None
  /\ end_id' = None
  /\ keyword' = DefaultKeyword
  /\ custom_replies' = <<>>
  /\ UNCHANGED <<next_id, lock, task, hist>>

\* /reset: State.custom_replies = {} binds a new dict, so a loop over the
\* old one goes on over the old one
cmd_reset ==
  /\ source_chat_id' = None
  /\ target_chat_id' = None
  /\ start_id' = None
  /\ end_id' = None
  /\ next_id' = None
  /\ keyword' = DefaultKeyword
  /\ custom_replies' = <<>>
  /\ task' = [h \in Handlers |->
               IF task[h].live
               THEN [task[h] EXCEPT !.live = FALSE,
                                    !.broken = (Len(custom_replies) # Val(task[h].used))]
               ELSE Unclean(task[h])]
  /\ ForgetHistory(FALSE)
  /\ UNCHANGED lock

\* ------------------------------------------------------------- status
NotSet == <<"Not set">>

\* range_str()
range_str ==
  IF start_id = None \/ end_id = None THEN NotSet
  ELSE <<Min(Val(start_id), Val(end_id)), Max(Val(start_id), Val(end_id)), next_id>>

\* name_or_id(chat_id) of cmd_status: out is what get_chat answers
name_or_id(chat_id, out) ==
  IF chat_id = None THEN NotSet
  ELSE IF out = "ok" THEN <<"label", Val(chat_id)>>
  ELSE <<"id", Val(chat_id)>>

\* what get_chat can answer inside name_or_id: return, or raise
ChatOutcomes == {"ok", "raised"}

\* L210-L217: the text is put together and reply_text is awaited
StatusText(src, tgt) ==
  [IdleStatus EXCEPT !.pc = "L217", !.src = src, !.tgt = tgt, !.rng = range_str]

\* L209: name_or_id(State.target_chat_id) suspends in get_chat only for a
\* chat that is set
StatusTarget(src) ==
  IF target_chat_id = None
  THEN StatusText(src, name_or_id(target_chat_id, "ok"))
  ELSE [IdleStatus EXCEPT !.pc = "L209", !.arg = target_chat_id, !.src = src]

\* /status up to its first suspension
cmd_status ==
  /\ status.pc = "idle"
  /\ status' = IF source_chat_id = None
                THEN StatusTarget(name_or_id(source_chat_id, "ok"))
                ELSE [IdleStatus EXCEPT !.pc = "L208", !.arg = source_chat_id]
  /\ UNCHANGED <<others, range, lock, task, hist>>

\* L203: get_chat answers for the source (L208) or for the target (L209)
StatusChatDone(out) ==
  /\ status.pc \in {"L208", "L209"}
  /\ status' = IF status.pc = "L208"
                THEN StatusTarget(name_or_id(status.arg, out))
                ELSE StatusText(status.src, name_or_id(status.arg, out))
  /\ UNCHANGED <<others, range, lock, task, hist>>

\* L217: the status reply returns or raises
StatusReplyDone(out) ==
  /\ status.pc = "L217"
  /\ status' = IdleStatus
  /\ UNCHANGED <<others, range, lock, task, hist>>

\* ------------------------------------------------------- forward logic
\* Lock.release() on leaving `async with State.lock`: the first waiter is
\* woken and takes the lock when it next runs
Released == [locked |-> FALSE, waiters |-> lock.waiters]

\* the coroutine ends, by return or by an exception leaving it
Return(h) ==
  task' = [g \in Handlers |->
             IF g = h THEN IdleTask
             ELSE [task[g] EXCEPT !.rivals = @ \ {h}]]

\* L232 without the comparison of the two chat ids
IsFromAnyChat(c) == target_chat_id # None

\* the test of L232, negated
IsFromTarget(c) == target_chat_id # None /\ c = Val(target_chat_id)

\* L241 letting one id past the end through
ExhaustedLate == Val(next_id) > Val(end_id) + 1

\* L241 with >= in place of >
ExhaustedOffByOne == Val(next_id) >= Val(end_id)

\* State.next_id > State.end_id
Exhausted == Val(next_id) > Val(end_id)

\* State.next_id -= 1
AdvanceDown(n) == n - 1

\* State.next_id += 2
AdvanceTwice(n) == n + 2

\* State.next_id += 1
Advance(n) == n + 1

\* the except clauses with RPCError tried before its subclass FloodWait
ExceptPcRpcFirst(out) ==
  IF out \in {"FloodWait", "RPCError"} THEN "L261" ELSE "L264"

\* the except clause an exception raised inside the try block reaches
ExceptPc(out) ==
  CASE out = "FloodWait" -> "L258"
    [] out = "RPCError" -> "L261"
    [] OTHER -> "L264"

\* an external call can succeed only with every argument set
CallValid(call) == \A i \in 2..Len(call) : call[i] # None

\* Lock.acquire() that never waits
CanAcquireAlways == TRUE

\* Lock.acquire() returns at once when the lock is free and nobody waits
\* for it; it queues the caller otherwise
CanAcquire == ~lock.locked /\ lock.waiters = <<>>

\* L239-L245, run without suspension once the lock is taken: t is the
\* handler's record and w the waiters left behind it
GuardBody(h, t, w) ==
  IF next_id = None \/ start_id = None \/ end_id = None
  THEN /\ Return(h)
       /\ lock' = [locked |-> FALSE, waiters |-> w]
  ELSE IF Exhausted
  THEN /\ task' = [task EXCEPT ![h] = [t EXCEPT !.pc = "L242"]]
       /\ lock' = [locked |-> TRUE, waiters |-> w]
  ELSE /\ task' = [task EXCEPT ![h] =
                     [t EXCEPT !.pc = "L245",
                               !.call = <<"get_messages", source_chat_id, next_id>>,
                               !.fetched = next_id]]
       /\ lock' = [locked |-> TRUE, waiters |-> w]

\* forward_next_if_ready up to its first suspension (L232-L245)
forward_next_if_ready(h, t) ==
  /\ UNCHANGED <<source_chat_id, target_chat_id, range, keyword, custom_replies,
                 hist>>
  /\ IF ~IsFromTarget(Val(t.chat))
     THEN Return(h) /\ UNCHANGED lock
     ELSE IF ~ready_to_forward[1]
     THEN /\ task' = [task EXCEPT ![h] =
                        [IdleTask EXCEPT !.pc = "L236", !.why = ready_to_forward[2]]]
          /\ UNCHANGED lock
     ELSE LET peers == {g \in Handlers \ {h} :
                          /\ task[g].pc \in ForwardPcs
                          /\ task[g].clean
                          /\ ~Exhausted}
              t1 == [t EXCEPT !.clean = TRUE, !.rivals = peers]
          IN /\ IF CanAcquire
                THEN GuardBody(h, t1, <<>>)
                ELSE /\ task' = [task EXCEPT ![h] = [t1 EXCEPT !.pc = "L238"]]
                     /\ lock' = [lock EXCEPT !.waiters = Append(@, h)]

\* L280: the keyword test, then the forward routine
KeywordCheck(h, t, text_lower) ==
  IF keyword # <<>> /\ Contains(Lower(keyword), text_lower)
  THEN forward_next_if_ready(h, t)
  ELSE Return(h) /\ UNCHANGED <<source_chat_id, target_chat_id, range, keyword,
                                custom_replies, lock, hist>>

\* on_text from its start to its first suspension: a text m.text arrives
\* from chat c and handler h takes it
on_text(h, c, text) ==
  /\ task[h].pc = "idle"
  /\ IF text = <<>>
     THEN UNCHANGED <<others, range, lock, task, hist>>
     ELSE LET text_lower == Lower(text)
              hits == SelectSeq(custom_replies, LAMBDA k : Contains(k, text_lower))
              t == [IdleTask EXCEPT !.chat = Some(c)]
          IN IF hits # <<>>
             THEN /\ task' = [task EXCEPT ![h] =
                                [t EXCEPT !.pc = "L277", !.text = text_lower,
                                          !.rest = Tail(hits),
                                          !.used = Some(Len(custom_replies)),
                                          !.live = TRUE]]
                  /\ UNCHANGED <<source_chat_id, target_chat_id, range, keyword,
                                 custom_replies, lock, hist>>
             ELSE KeywordCheck(h, t, text_lower)

\* L277 returns or raises; the loop then takes its next step. A dict whose
\* size changed makes that step raise RuntimeError; one whose key was deleted
\* and set again makes it raise (CPython 3.8 on) or yield the key once more
ReplyDone(h, out) ==
  /\ task[h].pc = "L277"
  /\ LET t == task[h]
         sized == t.broken \/ (t.live /\ Len(custom_replies) # Val(t.used))
         fresh == [IdleTask EXCEPT !.chat = t.chat]
         quit == Return(h) /\ UNCHANGED <<source_chat_id, target_chat_id, range,
                                          keyword, custom_replies, lock, hist>>
         again == /\ task' = [task EXCEPT ![h] = [t EXCEPT !.churn = FALSE]]
                  /\ UNCHANGED <<source_chat_id, target_chat_id, range,
                                 keyword, custom_replies, lock, hist>>
     IN IF out # "ok" \/ sized
        THEN quit
        ELSE IF t.churn
        THEN quit \/ again
        ELSE IF t.rest # <<>>
        THEN /\ task' = [task EXCEPT ![h] = [t EXCEPT !.rest = Tail(t.rest)]]
             /\ UNCHANGED <<source_chat_id, target_chat_id, range, keyword,
                            custom_replies, lock, hist>>
        ELSE KeywordCheck(h, fresh, t.text)

\* the first waiter of State.lock runs again and takes the lock
Resume(h) ==
  /\ task[h].pc = "L238"
  /\ ~lock.locked
  /\ lock.waiters # <<>>
  /\ Head(lock.waiters) = h
  /\ GuardBody(h, task[h], Tail(lock.waiters))
  /\ UNCHANGED <<source_chat_id, target_chat_id, range, keyword, custom_replies, hist>>

\* L236: the not-ready notice returns or raises
NotReadyNoticeDone(h, out) ==
  /\ task[h].pc = "L236"
  /\ Return(h)
  /\ UNCHANGED <<source_chat_id, target_chat_id, range, keyword, custom_replies,
                 lock, hist>>

\* L242: the exhausted notice returns or raises
ExhaustedNoticeDone(h, out) ==
  /\ task[h].pc = "L242"
  /\ Return(h)
  /\ lock' = Released
  /\ UNCHANGED <<source_chat_id, target_chat_id, range, keyword, custom_replies, hist>>

\* L245: get_messages answers
FetchDone(h, out) ==
  /\ task[h].pc = "L245"
  /\ CallValid(task[h].call) \/ out \notin {"msg", "empty"}
  /\ rangeClean' = (rangeClean /\ out = "msg")
  /\ task' = [task EXCEPT ![h] =
       IF out = "msg"
       THEN [@ EXCEPT !.pc = "L250", !.answer = out,
                      !.call = <<"copy_message", target_chat_id, source_chat_id, next_id>>]
       ELSE IF out = "empty"
       THEN [@ EXCEPT !.pc = "L247", !.answer = out, !.call = NoCall]
       ELSE [@ EXCEPT !.pc = ExceptPc(out), !.answer = out, !.call = NoCall]]
  /\ UNCHANGED <<source_chat_id, target_chat_id, range, keyword, custom_replies,
                 lock, lastId>>

\* L250: copy_message answers
CopyDone(h, out) ==
  /\ task[h].pc = "L250"
  /\ CallValid(task[h].call) \/ out # "ok"
  /\ IF out = "ok"
     THEN /\ task' = [g \in Handlers |->
                        IF g = h
                        THEN [task[h] EXCEPT !.pc = "L255", !.call = NoCall,
                                             !.answer = out,
                                             !.done = task[h].call[4]]
                        ELSE IF h \in task[g].rivals /\ task[h].clean
                        THEN [task[g] EXCEPT !.rivalDone = @ \cup {Val(task[h].call[4])}]
                        ELSE task[g]]
          /\ lastId' = IF task[h].clean THEN task[h].call[4] ELSE lastId
          /\ UNCHANGED rangeClean
     ELSE /\ task' = [task EXCEPT ![h] = [@ EXCEPT !.pc = ExceptPc(out),
                                                    !.answer = out, !.call = NoCall]]
          /\ rangeClean' = FALSE
          /\ UNCHANGED lastId
  /\ UNCHANGED <<source_chat_id, target_chat_id, range, keyword, custom_replies,
                 lock>>

\* L247 or L255: the notice returns and State.next_id += 1 runs, or the
\* notice raises inside the try block
NoticeDone(h, out) ==
  /\ task[h].pc \in {"L247", "L255"}
  /\ IF out = "ok" /\ next_id # None
     THEN /\ next_id' = Some(Advance(Val(next_id)))
          /\ Return(h)
          /\ lock' = Released
          /\ UNCHANGED rangeClean
     ELSE /\ task' = [task EXCEPT ![h] =
                        [@ EXCEPT !.pc = IF out = "ok" THEN "L264" ELSE ExceptPc(out)]]
          /\ rangeClean' = FALSE
          /\ UNCHANGED <<next_id, lock>>
  /\ UNCHANGED <<source_chat_id, target_chat_id, start_id, end_id, keyword,
                 custom_replies, lastId>>

\* L258: the FloodWait notice returns, or raises out of the handler
FloodNoticeDone(h, out) ==
  /\ task[h].pc = "L258"
  /\ IF out = "ok"
     THEN /\ task' = [task EXCEPT ![h] = [@ EXCEPT !.pc = "L259"]]
          /\ UNCHANGED lock
     ELSE Return(h) /\ lock' = Released
  /\ UNCHANGED <<source_chat_id, target_chat_id, range, keyword, custom_replies, hist>>

\* L259: asyncio.sleep(e.value) is over
SleepDone(h) ==
  /\ task[h].pc = "L259"
  /\ Return(h)
  /\ lock' = Released
  /\ UNCHANGED <<source_chat_id, target_chat_id, range, keyword, custom_replies, hist>>

\* L262 and L265 as State.next_id = <the id fetched> + 1 when the cursor
\* is None
ErrorNoticeDoneFromFetched(h, out) ==
  /\ task[h].pc \in {"L261", "L264"}
  /\ IF out = "ok" /\ next_id # None
     THEN next_id' = Some(Val(next_id) + 1)
     ELSE IF out = "ok"
     THEN next_id' = Some(Val(task[h].fetched) + 1)
     ELSE UNCHANGED next_id
  /\ Return(h)
  /\ lock' = Released
  /\ UNCHANGED <<source_chat_id, target_chat_id, start_id, end_id, keyword,
                 custom_replies, hist>>

\* L261 or L264: the error notice returns and State.next_id += 1 runs, or
\* the notice (or the increment of None) raises out of the handler
ErrorNoticeDone(h, out) ==
  /\ task[h].pc \in {"L261", "L264"}
  /\ IF out = "ok" /\ next_id # None
     THEN next_id' = Some(Advance(Val(next_id)))
     ELSE UNCHANGED next_id
  /\ Return(h)
  /\ lock' = Released
  /\ UNCHANGED <<source_chat_id, target_chat_id, start_id, end_id, keyword,
                 custom_replies, hist>>

\* ------------------------------------------------------- specification
ChatArgs == {<<>>, <<<<"@", "c">>>>}
KeywordArgs == {<<>>} \cup {<<w>> : w \in KeywordInputs}
ReplyArgs == {<<>>} \cup {<<w>> : w \in ReplyInputs}
                    \cup {<<w, <<"h", "i">>>> : w \in ReplyInputs}

\* what resolve_chat_id and the can_read_source / can_send_target check
\* come to: through, refused, or an exception
Checks == {"ok", "failed", "raised"}

\* The bot with an operator who configures source, target and range and
\* resets, and chats in which texts arrive: the keyword stays the default
\* and no custom reply is set.
Next ==
  \/ \E a \in ChatArgs, c \in SourceChats, r \in Checks :
       cmd_set_source(a, c, r) /\ UNCHANGED aside
  \/ \E a \in ChatArgs, c \in Chats, r \in Checks :
       cmd_set_target(a, c, r) /\ UNCHANGED aside
  \/ \E a \in RangeArgs : cmd_set_range(a) /\ UNCHANGED aside
  \/ cmd_reset /\ UNCHANGED aside
  \/ \E h \in Handlers, c \in Chats, text \in Texts :
       on_text(h, c, text) /\ UNCHANGED aside
  \/ \E h \in Handlers : Resume(h) /\ UNCHANGED aside
  \/ \E h \in Handlers, out \in CallOutcomes :
       NotReadyNoticeDone(h, out) /\ UNCHANGED aside
  \/ \E h \in Handlers, out \in CallOutcomes :
       ExhaustedNoticeDone(h, out) /\ UNCHANGED aside
  \/ \E h \in Handlers, out \in FetchOutcomes : FetchDone(h, out) /\ UNCHANGED aside
  \/ \E h \in Handlers, out \in CallOutcomes : CopyDone(h, out) /\ UNCHANGED aside
  \/ \E h \in Handlers, out \in CallOutcomes : NoticeDone(h, out) /\ UNCHANGED aside
  \/ \E h \in Handlers, out \in CallOutcomes :
       FloodNoticeDone(h, out) /\ UNCHANGED aside
  \/ \E h \in Handlers : SleepDone(h) /\ UNCHANGED aside
  \/ \E h \in Handlers, out \in CallOutcomes :
       ErrorNoticeDone(h, out) /\ UNCHANGED aside

Spec == Init /\ [][Next]_vars

\* The same with /setreply as well: on_text answers a text that holds a
\* custom trigger before it looks for the keyword.
NextReply ==
  \/ Next
  \/ \E a \in ReplyArgs : cmd_set_reply(a) /\ UNCHANGED aside
  \/ \E h \in Handlers, out \in CallOutcomes : ReplyDone(h, out) /\ UNCHANGED aside

SpecReply == Init /\ [][NextReply]_vars

\* The same with /setkeyword and /delreply as well.
NextFull ==
  \/ NextReply
  \/ \E a \in KeywordArgs : cmd_set_keyword(a) /\ UNCHANGED aside
  \/ \E a \in ReplyArgs : cmd_del_reply(a) /\ UNCHANGED aside

SpecFull == Init /\ [][NextFull]_vars

\* /setrange alone, from any values of the State fields
InitAny ==
  /\ source_chat_id \in {None} \cup {Some(c) : c \in SourceChats}
  /\ target_chat_id \in {None} \cup {Some(c) : c \in Chats}
  /\ start_id \in OptIds
  /\ end_id \in OptIds
  /\ next_id \in OptIds
  /\ keyword = DefaultKeyword
  /\ custom_replies = <<>>
  /\ lock = [locked |-> FALSE, waiters |-> <<>>]
  /\ task = [h \in Handlers |-> IdleTask]
  /\ lastId = None
  /\ rangeClean = FALSE
  /\ argv = <<>>
  /\ status = IdleStatus

\* /setrange words that int() reads with a sign or with two digits as well
SignedWords == RangeWords \cup {<<"-", "1">>, <<"+", "2">>, <<"1", "0">>}
SignedArgs ==
  {<<>>} \cup {<<a>> : a \in SignedWords}
         \cup {<<a, b>> : a \in SignedWords, b \in SignedWords}

NextRange ==
  \E a \in SignedArgs : cmd_set_range(a) /\ argv' = a /\ UNCHANGED status

SpecRange == InitAny /\ [][NextRange]_vars

\* the readiness gate as on_text reaches it, from any values of the State
\* fields: a text arrives, and a not-ready notice ends
NextGate ==
  \/ \E h \in Handlers, c \in Chats, text \in Texts :
       on_text(h, c, text) /\ UNCHANGED aside
  \/ \E h \in Handlers, out \in CallOutcomes :
       NotReadyNoticeDone(h, out) /\ UNCHANGED aside

SpecGate == InitAny /\ [][NextGate]_vars

\* What can run while a forward attempt sleeps in asyncio.sleep (L259)
\* holding State.lock: the state after /setsource, /settarget, /setrange 1 2,
\* one forward of id 1 and a trigger whose fetch of id 2 raised FloodWait.
WaitTask ==
  [IdleTask EXCEPT !.pc = "L259", !.chat = Some(1), !.fetched = Some(2),
                   !.answer = "FloodWait", !.clean = TRUE]

InitWait ==
  /\ source_chat_id = Some(3)
  /\ target_chat_id = Some(1)
  /\ start_id = Some(1)
  /\ end_id = Some(2)
  /\ next_id = Some(2)
  /\ keyword = DefaultKeyword
  /\ custom_replies = <<>>
  /\ lock = [locked |-> TRUE, waiters |-> <<>>]
  /\ task = [h \in Handlers |-> IF h = 1 THEN WaitTask ELSE IdleTask]
  /\ lastId = Some(1)
  /\ rangeClean = FALSE
  /\ argv = <<>>
  /\ status = IdleStatus

ResetWord == <<"/", "r", "e", "s", "e", "t">>

\* the operator at work during the sleep: the commands that write State
\* fields and /status; argv holds the command of the step when that is /reset
NextConsole ==
  \/ \E a \in ChatArgs, c \in SourceChats, r \in Checks :
       cmd_set_source(a, c, r) /\ argv' = <<>> /\ UNCHANGED status
  \/ \E a \in ChatArgs, c \in Chats, r \in Checks :
       cmd_set_target(a, c, r) /\ argv' = <<>> /\ UNCHANGED status
  \/ \E a \in RangeArgs : cmd_set_range(a) /\ argv' = <<>> /\ UNCHANGED status
  \/ \E a \in KeywordArgs : cmd_set_keyword(a) /\ argv' = <<>> /\ UNCHANGED status
  \/ cmd_reset /\ argv' = <<ResetWord>> /\ UNCHANGED status
  \/ cmd_status /\ argv' = <<>>
  \/ \E out \in ChatOutcomes : StatusChatDone(out) /\ argv' = <<>>
  \/ \E out \in CallOutcomes : StatusReplyDone(out) /\ argv' = <<>>

SpecConsole == InitWait /\ [][NextConsole]_vars

\* every handler but the end of the sleep
NextWait ==
  \/ \E a \in ChatArgs, c \in SourceChats, r \in Checks :
       cmd_set_source(a, c, r) /\ UNCHANGED aside
  \/ \E a \in ChatArgs, c \in Chats, r \in Checks :
       cmd_set_target(a, c, r) /\ UNCHANGED aside
  \/ \E a \in RangeArgs : cmd_set_range(a) /\ UNCHANGED aside
  \/ \E a \in KeywordArgs : cmd_set_keyword(a) /\ UNCHANGED aside
  \/ \E a \in ReplyArgs : cmd_set_reply(a) /\ UNCHANGED aside
  \/ \E a \in ReplyArgs : cmd_del_reply(a) /\ UNCHANGED aside
  \/ cmd_reset /\ UNCHANGED aside
  \/ cmd_status /\ UNCHANGED argv
  \/ \E out \in ChatOutcomes : StatusChatDone(out) /\ UNCHANGED argv
  \/ \E out \in CallOutcomes : StatusReplyDone(out) /\ UNCHANGED argv
  \/ \E h \in Handlers, c \in Chats, text \in Texts :
       on_text(h, c, text) /\ UNCHANGED aside
  \/ \E h \in Handlers, out \in CallOutcomes : ReplyDone(h, out) /\ UNCHANGED aside
  \/ \E h \in Handlers, out \in CallOutcomes :
       NotReadyNoticeDone(h, out) /\ UNCHANGED aside

SpecWait == InitWait /\ [][NextWait]_vars

\* The forward routine alone on a configured bot: the state after
\* /setsource, /settarget and /setrange 1 MaxId, then texts and the steps of
\* their handlers, no command.
InitLive ==
  /\ source_chat_id = Some(3)
  /\ target_chat_id = Some(1)
  /\ start_id = Some(1)
  /\ end_id = Some(MaxId)
  /\ next_id = Some(1)
  /\ keyword = DefaultKeyword
  /\ custom_replies = <<>>
  /\ lock = [locked |-> FALSE, waiters |-> <<>>]
  /\ task = [h \in Handlers |-> IdleTask]
  /\ lastId = None
  /\ rangeClean = TRUE
  /\ argv = <<>>
  /\ status = IdleStatus

\* a text with the keyword arrives from the target chat
Trigger(h) == on_text(h, Val(target_chat_id), DefaultKeyword) /\ UNCHANGED aside
\* an awaited call of handler h answers, and not with FloodWait
Answered(h) ==
  \/ \E out \in CallOutcomes : ExhaustedNoticeDone(h, out) /\ UNCHANGED aside
  \/ \E out \in FetchOutcomes \ {"FloodWait"} : FetchDone(h, out) /\ UNCHANGED aside
  \/ \E out \in CallOutcomes \ {"FloodWait"} : CopyDone(h, out) /\ UNCHANGED aside
  \/ \E out \in CallOutcomes \ {"FloodWait"} : NoticeDone(h, out) /\ UNCHANGED aside
  \/ \E out \in CallOutcomes : FloodNoticeDone(h, out) /\ UNCHANGED aside
  \/ \E out \in CallOutcomes : ErrorNoticeDone(h, out) /\ UNCHANGED aside

NextLive ==
  \/ \E h \in Handlers, c \in Chats, text \in Texts :
       on_text(h, c, text) /\ UNCHANGED aside
  \/ \E h \in Handlers : Resume(h) /\ UNCHANGED aside
  \/ \E h \in Handlers, out \in CallOutcomes :
       ExhaustedNoticeDone(h, out) /\ UNCHANGED aside
  \/ \E h \in Handlers, out \in FetchOutcomes : FetchDone(h, out) /\ UNCHANGED aside
  \/ \E h \in Handlers, out \in CallOutcomes : CopyDone(h, out) /\ UNCHANGED aside
  \/ \E h \in Handlers, out \in CallOutcomes : NoticeDone(h, out) /\ UNCHANGED aside
  \/ \E h \in Handlers, out \in CallOutcomes :
       FloodNoticeDone(h, out) /\ UNCHANGED aside
  \/ \E h \in Handlers : SleepDone(h) /\ UNCHANGED aside
  \/ \E h \in Handlers, out \in CallOutcomes :
       ErrorNoticeDone(h, out) /\ UNCHANGED aside

\* Triggers keep arriving from the target chat; the event loop runs every
\* handler that can run; every sleep ends; every awaited call answers, and
\* not with FloodWait each time.
FairLive ==
  /\ WF_vars(\E h \in Handlers : Trigger(h))
  /\ \A h \in Handlers : WF_vars(Resume(h) /\ UNCHANGED aside)
  /\ \A h \in Handlers : WF_vars(SleepDone(h) /\ UNCHANGED aside)
  /\ \A h \in Handlers : SF_vars(Answered(h))

SpecLive == InitLive /\ [][NextLive]_vars /\ FairLive

\* ------------------------------------------------------------- claims
\* handler h moves in this step
Moves(h) == task'[h].pc # task[h].pc
\* the forward attempt of handler h ends in this step
Ends(h) == task[h].pc \in GuardedPcs /\ task'[h].pc = "idle"
state == <<source_chat_id, target_chat_id, start_id, end_id, next_id>>

\* C1: of two triggers from the target chat handled concurrently at the
\* same cursor within one range, no two copy the same id: the id N is
\* copied at most once.
C1_RivalsCopyDistinctIds ==
  \A h \in Handlers :
    task[h].done # None => Val(task[h].done) \notin task[h].rivalDone

\* C2: within one range (no /setrange or /reset in between) every
\* successful copy is of an id greater than the id copied before it,
\* whatever each fetch, copy and notice answers.
C2_CopiesStrictlyIncrease ==
  [][\A h \in Handlers :
       (task[h].pc = "L250" /\ task'[h].pc = "L255" /\ task[h].clean /\ lastId # None)
         => Val(task'[h].done) > Val(lastId)]_vars

\* C3: while every attempt since /setrange succeeded, the ids copied are
\* lo, lo+1, ... in that order, once each and none past hi; an attempt is
\* turned away as exhausted exactly when cursor > rangeEnd, and such an
\* attempt makes no call and leaves the State as it is.
C3_InOrder ==
  (rangeClean /\ next_id # None) =>
    /\ start_id # None /\ end_id # None
    /\ IF lastId = None
       THEN next_id = start_id
       ELSE \/ Val(next_id) = Val(lastId) + 1
            \/ Val(next_id) = Val(lastId) /\ \E h \in Handlers : task[h].pc = "L255"

C3_Step ==
  \A h \in Handlers :
    /\ (task[h].pc = "L250" /\ task'[h].pc = "L255" /\ rangeClean)
         => /\ lastId' = IF lastId = None THEN start_id ELSE Some(Val(lastId) + 1)
            /\ Val(lastId') <= Val(end_id)
    /\ (task[h].pc \notin GuardedPcs /\ task'[h].pc \in GuardedPcs)
         => ((task'[h].pc = "L242") <=> (Val(next_id) > Val(end_id)))
    /\ (task[h].pc # "L242" /\ task'[h].pc = "L242")
         => /\ state' = state
            /\ task'[h].call = NoCall /\ task'[h].fetched = None
    /\ (task[h].pc = "L242" /\ Moves(h))
         => state' = state /\ task'[h].pc = "idle"

C3_RangeCopiedInOrderThenExhausted == [](C3_InOrder) /\ [][C3_Step]_vars

C3_Witness ==
  /\ rangeClean
  /\ start_id = Some(1) /\ end_id = Some(2)
  /\ lastId = Some(2) /\ next_id = Some(3)
  /\ \E h \in Handlers : task[h].pc = "L242"

\* C4: once get_messages or copy_message for id N answers FloodWait, the
\* attempt makes no further call, never changes the cursor, and ends with
\* the cursor still N (no /setrange or /reset in between); an attempt
\* always fetches the id the cursor holds, so the next one fetches N.
C4_Flooded ==
  \A h \in Handlers :
    task[h].answer = "FloodWait" =>
      /\ task[h].pc \in {"L258", "L259"}
      /\ task[h].call = NoCall
      /\ task[h].clean => next_id = task[h].fetched

C4_Step ==
  \A h \in Handlers :
    /\ (task[h].answer = "FloodWait" /\ Moves(h))
         => next_id' = next_id /\ task'[h].pc \in {"L259", "idle"}
    /\ (task[h].pc # "L245" /\ task'[h].pc = "L245")
         => task'[h].fetched = next_id

C4_RateLimitKeepsCursor == [](C4_Flooded) /\ [][C4_Step]_vars

C4_Witness ==
  \E h \in Handlers :
    /\ task[h].pc = "L259"
    /\ task[h].answer = "FloodWait"
    /\ task[h].clean
    /\ next_id = task[h].fetched

\* C5: an attempt whose fetch of id N came back empty ends with the cursor
\* at N+1 and without a copy (no /setrange or /reset in between).
C5_EmptyFetchAdvances ==
  [][\A h \in Handlers :
       (task[h].answer = "empty" /\ task[h].clean /\ Ends(h))
         => next_id' = Some(Val(task[h].fetched) + 1) /\ task[h].done = None]_vars

\* C6: an attempt for id N whose fetch or copy raised an error other than
\* FloodWait ends with the cursor at N+1 (no /setrange or /reset in between).
C6_ErrorAdvancesByOne ==
  [][\A h \in Handlers :
       (task[h].answer \in {"RPCError", "Exception"} /\ task[h].clean /\ Ends(h))
         => next_id' = Some(Val(task[h].fetched) + 1)]_vars

\* C7: a trigger that waited for the lock and takes it while source, target,
\* range or cursor is unset reports that, makes no fetch or copy call and
\* leaves the State as it is.
C7_GateRecheckedUnderLock ==
  [][\A h \in Handlers :
       (/\ task[h].pc = "L238" /\ Moves(h)
        /\ \/ source_chat_id = None \/ target_chat_id = None
           \/ start_id = None \/ end_id = None \/ next_id = None)
         => /\ task'[h].call = NoCall
            /\ task'[h].pc # "idle"
            /\ state' = state]_vars

\* a trigger that waited through /reset and /setrange fetches with no source
C7_FetchWithoutSource ==
  \E h \in Handlers :
    /\ task[h].pc = "L245"
    /\ source_chat_id = None
    /\ task[h].call = <<"get_messages", None, next_id>>

\* C8: a text from a chat other than the target chat, or while no target is
\* set, never takes its handler into the guarded part of the forward
\* routine, whether it holds the keyword and whatever the readiness gate
\* would say; calls are issued and the cursor is moved from there only.
C8_Step ==
  \A h \in Handlers :
    /\ (task[h].pc \notin ForwardPcs /\ task'[h].pc \in ForwardPcs)
         => target_chat_id # None /\ task'[h].chat = target_chat_id
    /\ (/\ task[h].pc = "L277" /\ Moves(h)
        /\ (target_chat_id = None \/ task[h].chat # target_chat_id))
         => /\ task'[h].pc = "idle"
            /\ state' = state

C8_Calls ==
  \A h \in Handlers :
    /\ task[h].call # NoCall => task[h].pc \in {"L245", "L250"}
    /\ task[h].pc \in {"idle", "L277", "L236", "L238"} => task[h].fetched = None

C8_OtherChatNeverForwards == [](C8_Calls) /\ [][C8_Step]_vars

C8_Witness ==
  \E h \in Handlers :
    /\ task[h].pc = "L277"
    /\ target_chat_id # None
    /\ task[h].chat # target_chat_id
    /\ Contains(Lower(keyword), task[h].text)
    /\ source_chat_id # None /\ next_id # None

\* C9: after /setrange with two integers, rangeStart is the smaller,
\* rangeEnd the larger and cursor = rangeStart, whatever the fields held.
C9_SetRangeNormalises ==
  (Len(argv) >= 2 /\ IsIntText(argv[1]) /\ IsIntText(argv[2])) =>
    LET a == IntOf(argv[1])
        b == IntOf(argv[2])
    IN /\ start_id = Some(IF a <= b THEN a ELSE b)
       /\ end_id = Some(IF a <= b THEN b ELSE a)
       /\ next_id = start_id

C9_Witness ==
  /\ argv = <<IdText(2), IdText(1)>>
  /\ start_id = Some(1) /\ end_id = Some(2) /\ next_id = Some(1)

\* C10: the gate answers ready exactly when source, target, both range
\* bounds and the cursor are set, and otherwise gives the one reason of the
\* first check that fails in the order source, target, range, cursor; a
\* handler is told that reason; no call of it changes the State.
GateChecks ==
  <<source_chat_id # None, target_chat_id # None,
    start_id # None /\ end_id # None, next_id # None>>
GateReasons ==
  <<"Source not set. Use /setsource", "Target not set. Use /settarget",
    "Range not set. Use /setrange <first_id> <last_id>",
    "Internal: next_id not initialized">>
FirstFailing ==
  CHOOSE i \in 1..4 : ~GateChecks[i] /\ \A j \in 1..(i - 1) : GateChecks[j]

C10_Gate ==
  /\ ready_to_forward[1] <=> \A i \in 1..4 : GateChecks[i]
  /\ ready_to_forward[1] => ready_to_forward[2] = "OK"
  /\ ~ready_to_forward[1] => ready_to_forward[2] = GateReasons[FirstFailing]
  /\ \A h \in Handlers :
       task[h].pc = "L236" =>
         /\ \E i \in 1..4 : ~GateChecks[i]
         /\ task[h].why = GateReasons[FirstFailing]

C10_GateFirstFailingCheck == [](C10_Gate) /\ [][state' = state]_vars

C10_Witness ==
  \E h \in Handlers :
    /\ task[h].pc = "L236"
    /\ task[h].why = "Internal: next_id not initialized"
    /\ next_id = None /\ start_id # None /\ end_id # None

\* C11: /reset leaves source, target, range start, range end and cursor
\* unset, the keyword "Completed" and no custom reply, as at start; a
\* /status begun right after it shows source, target and range as not set.
C11_AfterReset ==
  argv = <<ResetWord>> =>
    /\ source_chat_id = <<>> /\ target_chat_id = <<>>
    /\ start_id = <<>> /\ end_id = <<>> /\ next_id = <<>>
    /\ keyword = <<"C", "o", "m", "p", "l", "e", "t", "e", "d">>
    /\ custom_replies = <<>>

C11_StatusAfterReset ==
  (argv = <<ResetWord>> /\ status.pc = "idle" /\ status'.pc # "idle") =>
    /\ status'.pc = "L217"
    /\ status'.src = <<"Not set">>
    /\ status'.tgt = <<"Not set">>
    /\ status'.rng = <<"Not set">>

C11_ResetRestoresInitial == [](C11_AfterReset) /\ [][C11_StatusAfterReset]_vars

C11_Witness ==
  /\ status.pc = "L217"
  /\ status.src = <<"Not set">> /\ status.tgt = <<"Not set">>
  /\ status.rng = <<"Not set">>
  /\ next_id = None /\ source_chat_id = None
  /\ task[1].pc = "L259" /\ task[1].fetched = Some(2)

\* C12: while a forward attempt sleeps at L259 every command (/setsource,
\* /settarget, /setrange, /setkeyword, /reset), every step of /status and
\* every step of the custom-reply handling of another text can be taken:
\* none of them waits for the sleep to end.
C12_Sleeping == \E h \in Handlers : task[h].pc = "L259" /\ lock.locked

C12_NothingBlocked ==
  C12_Sleeping =>
    /\ ENABLED (\E a \in ChatArgs, c \in SourceChats :
                  cmd_set_source(a, c, "ok") /\ UNCHANGED aside)
    /\ ENABLED (\E a \in ChatArgs, c \in Chats :
                  cmd_set_target(a, c, "ok") /\ UNCHANGED aside)
    /\ \A a \in RangeArgs : ENABLED (cmd_set_range(a) /\ UNCHANGED aside)
    /\ \A a \in KeywordArgs : ENABLED (cmd_set_keyword(a) /\ UNCHANGED aside)
    /\ ENABLED (cmd_reset /\ UNCHANGED aside)
    /\ status.pc = "idle" => ENABLED (cmd_status /\ UNCHANGED argv)
    /\ status.pc \in {"L208", "L209"} =>
         ENABLED (StatusChatDone("ok") /\ UNCHANGED argv)
    /\ status.pc = "L217" => ENABLED (StatusReplyDone("ok") /\ UNCHANGED argv)
    /\ \A g \in Handlers :
         /\ (task[g].pc = "idle" /\ custom_replies # <<>>) =>
              ENABLED (/\ \E c \in Chats, text \in Texts : on_text(g, c, text)
                       /\ task'[g].pc = "L277"
                       /\ UNCHANGED aside)
         /\ task[g].pc = "L277" =>
              ENABLED (ReplyDone(g, "ok") /\ UNCHANGED aside)

C12_Witness ==
  /\ task[1].pc = "L259"
  /\ \E g \in Handlers : task[g].pc = "L277"
  /\ status.pc = "L217"
  /\ keyword # DefaultKeyword
  /\ source_chat_id = None

\* C13: at most one handler is between taking and releasing State.lock
\* (exhausted check, fetch, copy, notices, increment, rate-limit sleep),
\* and the lock is held exactly then; a handler that finds it taken waits
\* in its queue at L238.
C13_MutualExclusion ==
  LET inside == {h \in Handlers : task[h].pc \notin {"idle", "L277", "L236", "L238"}}
  IN /\ Cardinality(inside) <= 1
     /\ lock.locked <=> inside # {}
     /\ \A h \in Handlers :
          task[h].pc = "L238" <=> \E i \in 1..Len(lock.waiters) : lock.waiters[i] = h

C13_Witness ==
  \E h \in Handlers, g \in Handlers :
    /\ task[h].pc = "L250"
    /\ task[g].pc = "L238"
    /\ lock = [locked |-> TRUE, waiters |-> <<g>>]

\* C14: on a configured bot without /setrange or /reset, with triggers
\* arriving from the target chat for ever, finite sleeps and calls that are
\* not answered with FloodWait for ever, the cursor eventually passes the
\* end of the range, and every handler that takes State.lock releases it.
C14_EventuallyExhausted ==
  /\ <>(next_id # None /\ end_id # None /\ Val(next_id) > Val(end_id))
  /\ \A h \in Handlers :
       (task[h].pc \notin {"idle", "L277", "L236", "L238"}) ~> (task[h].pc = "idle")

\* C15: whenever the cursor is set, both ends of the range are set,
\* rangeStart <= rangeEnd and rangeStart <= cursor, under every interleaving
\* of commands, /reset and forward attempts.
C15_CursorWithinRange ==
  next_id # <<>> =>
    /\ start_id # <<>> /\ end_id # <<>>
    /\ start_id[1] <= end_id[1]
    /\ start_id[1] <= next_id[1]

\* /setrange moved the cursor below the id an attempt in flight fetched
C15_Witness ==
  \E h \in Handlers :
    /\ task[h].pc = "L250"
    /\ task[h].fetched = Some(2)
    /\ next_id = Some(1) /\ start_id = Some(1) /\ end_id = Some(2)

\* C16: the cursor changes only when an attempt ends, and then by exactly
\* one upwards, or when /setrange or /reset runs; so no other step lowers or
\* unsets it and an attempt raises it by one at most, whatever its fetch,
\* copy and notices answer.
C16_Step ==
  next_id' # next_id =>
    \/ \E h \in Handlers :
         /\ task[h].pc \in {"L247", "L255", "L261", "L264"}
         /\ task'[h].pc = "idle"
         /\ next_id # <<>>
         /\ next_id' = <<next_id[1] + 1>>
    \/ /\ \A h \in Handlers : task'[h].pc = task[h].pc
       /\ \/ /\ next_id' = <<>> /\ start_id' = <<>> /\ end_id' = <<>>
             /\ source_chat_id' = <<>> /\ target_chat_id' = <<>>
          \/ /\ next_id' # <<>> /\ next_id' = start_id'
             /\ source_chat_id' = source_chat_id
             /\ target_chat_id' = target_chat_id

C16_CursorMonotone == [][C16_Step]_vars

\* the copy went through, its notice raised, and the error notice is awaited
C16_Witness ==
  \E h \in Handlers :
    /\ task[h].pc = "L261"
    /\ task[h].done # None
    /\ next_id = task[h].done

\* C17: whenever cursor and rangeEnd are set, cursor <= rangeEnd + 1, also
\* when /setrange runs while an attempt is suspended in a call or a sleep.
C17_CursorAtMostOnePast ==
  (next_id # <<>> /\ end_id # <<>>) => next_id[1] <= end_id[1] + 1

\* /setrange 1 1 ran while an attempt for id 2 sleeps; the cursor is 1
C17_Witness ==
  \E h \in Handlers :
    /\ task[h].pc = "L259"
    /\ task[h].fetched = Some(2)
    /\ ~task[h].clean
    /\ next_id = Some(1) /\ end_id = Some(1)

\* C18: the id given to copy_message is the id given to get_messages in
\* the same attempt, and an attempt whose copy and notice went through
\* leaves the cursor at that id + 1, also when /setrange runs meanwhile.
C18_CopyIsOfFetched ==
  \A h \in Handlers :
    task[h].pc = "L250" => task[h].call[4] = task[h].fetched

C18_Step ==
  \A h \in Handlers :
    (task[h].pc = "L255" /\ task'[h].pc = "idle") =>
      next_id' = <<task[h].fetched[1] + 1>>

C18_CopiesWhatItFetched == [](C18_CopyIsOfFetched) /\ [][C18_Step]_vars

\* C19: a step of a handler never sets a field that is unset, so an attempt
\* in flight when /reset ran ends with source, target, range and cursor
\* still unset; only /setrange sets the cursor again.
C19_Step ==
  /\ (\E h \in Handlers : Moves(h)) =>
       /\ source_chat_id = <<>> => source_chat_id' = <<>>
       /\ target_chat_id = <<>> => target_chat_id' = <<>>
       /\ start_id = <<>> => start_id' = <<>>
       /\ end_id = <<>> => end_id' = <<>>
       /\ next_id = <<>> => next_id' = <<>>
  /\ (next_id = <<>> /\ next_id' # <<>>) =>
       next_id' = start_id' /\ end_id' # <<>>

C19_ResetSurvivesAttempt == [][C19_Step]_vars

\* after /reset the increment of L256 met None and the notice of L264 is
\* awaited
C19_Witness ==
  \E h \in Handlers :
    /\ task[h].pc = "L264"
    /\ task[h].answer = "ok"
    /\ task[h].done # None
    /\ next_id = None /\ start_id = None /\ source_chat_id = None

\* C20: copy_message is given the chat the trigger came from as its
\* destination, also when /settarget runs while the trigger waits.
C20_CopyGoesToTriggerChat ==
  \A h \in Handlers :
    task[h].pc = "L250" => task[h].call[2] = task[h].chat

====
